---------------------------- MODULE Spec2Model ----------------------------
(***************************************************************************)
(* Pawn Race board engine (logic/src/board.rs): the packed 2-bit-per-square *)
(* Board, Position/File/Rank arithmetic, the piece and move iterators and   *)
(* move application, as a state machine.                                    *)
(*                                                                          *)
(* The u128 field `raw` is a function from bit index 0..127 to {0,1}; bit   *)
(* operations are defined bit by bit.  An Option<T> is a sequence: None is  *)
(* <<>> and Some(x) is <<x>>.  A Square is one of the strings "White",      *)
(* "Black", "Empty" (Piece(White), Piece(Black), Empty).                    *)
(***************************************************************************)
EXTENDS Integers, Sequences, FiniteSets

VARIABLES
    board,   \* the Board the caller holds
    move,    \* the Move applied last (an Option)
    phase,   \* "move": the board is handed to the mover; "flip": a move was applied
    ply,     \* moves applied so far
    iter,    \* a live MovesIterator (an Option)
    pulls,   \* what its calls of next() returned
    pieces,  \* a live PieceIterator (an Option)
    ppulls,  \* what its calls of next() returned, with the squares each looked at
    call     \* the last call of a File, Rank or Position function, or of
             \* Board::flip / Board::after on the held board (an Option)

vars == <<board, move, phase, ply, iter, pulls, pieces, ppulls, call>>

-----------------------------------------------------------------------------
(* Bounds of the model *)

\* plies played in a game from Board::new()
MaxPly == 6
\* plies played from an arbitrary small board
MaxAnyPly == 2
\* pawns placed on an arbitrary small board
MaxPawns == 2
\* calls of MovesIterator::next on one iterator
MaxPulls == 8
\* integers handed to File::new and Rank::new: -MaxCoord .. 8 + MaxCoord
MaxCoord == 10
\* files, in White's coordinates, whose pawns the agents move in a game from
\* Board::new()
PlayFiles == {0, 1}
\* squares on which the arbitrary small boards carry pawns
AnyFiles == {0, 1}
AnyRanks == {1, 2, 3, 4}

-----------------------------------------------------------------------------
(* Option *)

None == <<>>
Some(x) == <<x>>
IsSome(o) == o # None
Unwrap(o) == o[1]

-----------------------------------------------------------------------------
(* u128 *)

BitIx == 0..127
U128_ZERO == [i \in BitIx |-> 0]
U128_MAX == [i \in BitIx |-> 1]
\* the u128 with the value v, for v in 0..3
U128(v) == [i \in BitIx |-> IF i = 0 THEN v % 2 ELSE IF i = 1 THEN (v \div 2) % 2 ELSE 0]
Shl(x, n) == [i \in BitIx |-> IF i >= n THEN x[i - n] ELSE 0]
BitAnd(x, y) == [i \in BitIx |-> IF x[i] = 1 /\ y[i] = 1 THEN 1 ELSE 0]
BitOr(x, y) == [i \in BitIx |-> IF x[i] = 1 \/ y[i] = 1 THEN 1 ELSE 0]
BitXor(x, y) == [i \in BitIx |-> IF x[i] # y[i] THEN 1 ELSE 0]
reverse_bits(x) == [i \in BitIx |-> x[127 - i]]

-----------------------------------------------------------------------------
(* File, Rank: struct File(i32), struct Rank(i32) *)

\* i32::wrapping_rem: the remainder has the sign of the dividend
wrapping_rem(a, b) == IF a >= 0 THEN a % b ELSE 0 - ((0 - a) % b)

File_new(v) == wrapping_rem(v - 1, 8)
\* chars are their code points; char::to_ascii_uppercase
to_ascii_uppercase(c) == IF c \in 97..122 THEN c - 32 ELSE c
\* v.to_ascii_uppercase() as i32 - 'A' as i32
File_parse(c) == to_ascii_uppercase(c) - 65
File_n(f) == f + 1
File_flip(f) == 7 - f
File_is_start(f) == f = 0
File_is_end(f) == f = 7
File_incr(f) == File_new(File_n(f) + 1)
File_decr(f) == File_new(File_n(f) - 1)

Rank_new(v) == wrapping_rem(v - 1, 8)
\* char::to_digit(10): Some(digit) for '0'..'9', else None
to_digit(c) == IF c \in 48..57 THEN Some(c - 48) ELSE None
Rank_n(r) == r + 1
Rank_flip(r) == 7 - r
Rank_is_start(r) == r = 0
Rank_is_end(r) == r = 7
Rank_incr(r) == Rank_new(Rank_n(r) + 1)
Rank_decr(r) == Rank_new(Rank_n(r) - 1)

-----------------------------------------------------------------------------
(* Position *)

Pos(f, r) == [file |-> f, rank |-> r]
\* From<(i32, i32)> for Position
Position_from(x, y) == [file |-> File_new(x), rank |-> Rank_new(y)]
Squares == {Pos(f, r) : f \in 0..7, r \in 0..7}

\* mutant: reflects the rank only
Position_flip_rank_only(p) == [file |-> p.file, rank |-> Rank_flip(p.rank)]

Position_flip(p) == [file |-> File_flip(p.file), rank |-> Rank_flip(p.rank)]

Position_incr(p) ==
    [file |-> File_incr(p.file),
     rank |-> IF File_is_end(p.file) THEN Rank_incr(p.rank) ELSE p.rank]

Position_left(p) ==
    IF File_is_start(p.file) THEN None
    ELSE Some([file |-> File_decr(p.file), rank |-> p.rank])

\* mutant: steps right without looking at the edge
Position_right_unguarded(p) ==
    Some([file |-> File_incr(p.file), rank |-> p.rank])

Position_right(p) ==
    IF File_is_end(p.file) THEN None
    ELSE Some([file |-> File_incr(p.file), rank |-> p.rank])

\* mutant: steps forward without looking at the edge
Position_front_unguarded(p) ==
    Some([file |-> p.file, rank |-> Rank_incr(p.rank)])

Position_front(p) ==
    IF Rank_is_end(p.rank) THEN None
    ELSE Some([file |-> p.file, rank |-> Rank_incr(p.rank)])

\* Option::and_then
AndThenLeft(o) == IF IsSome(o) THEN Position_left(Unwrap(o)) ELSE None
AndThenRight(o) == IF IsSome(o) THEN Position_right(Unwrap(o)) ELSE None
AndThenFront(o) == IF IsSome(o) THEN Position_front(Unwrap(o)) ELSE None

Position_diag_l(p) == AndThenLeft(Position_front(p))
Position_diag_r(p) == AndThenRight(Position_front(p))

Position_is_start(p) == File_is_start(p.file) /\ Rank_is_start(p.rank)
Position_is_end(p) == File_is_end(p.file) /\ Rank_is_end(p.rank)

-----------------------------------------------------------------------------
(* Square *)

\* the argument is the value of a u128 whose bits above bit 1 are clear
Square_decode(v) ==
    IF v = 1 THEN "White" ELSE IF v = 2 THEN "Black" ELSE "Empty"

Square_encode(s) ==
    IF s = "White" THEN 1 ELSE IF s = "Black" THEN 2 ELSE 0

Square_flip(s) ==
    IF s = "White" THEN "Black" ELSE IF s = "Black" THEN "White" ELSE "Empty"

Square_is_white(s) == s = "White"
Square_is_black(s) == s = "Black"
Square_is_empty(s) == s = "Empty"

-----------------------------------------------------------------------------
(* Board *)

\* raw: 0x0000AAAA000000000000000055550000
\* 0x5555 in bits 16..31 (01 on the squares of rank 2), 0xAAAA in bits 96..111
\* (10 on the squares of rank 7)
Board_new ==
    [raw |-> [i \in BitIx |->
                 IF i \in 16..31 THEN (IF i % 2 = 0 THEN 1 ELSE 0)
                 ELSE IF i \in 96..111 THEN (IF i % 2 = 1 THEN 1 ELSE 0)
                 ELSE 0],
     passantable_pos |-> None]

Board_bits_at(pos) == 2 * (8 * pos.rank + pos.file)

\* (self.raw & (0b11 << bit_pos)) >> bit_pos keeps the two bits at bit_pos and
\* bit_pos + 1 and moves them to bits 0 and 1
Board_at(b, pos) ==
    LET bit_pos == Board_bits_at(pos)
    IN  Square_decode(b.raw[bit_pos] + 2 * b.raw[bit_pos + 1])

\* mutant: writes the encoded value without clearing the square first
Board_set_no_clear(b, pos, s) ==
    LET bit_pos == Board_bits_at(pos)
        mask2 == Shl(U128(Square_encode(s)), bit_pos)
    IN  [b EXCEPT !.raw = BitOr(b.raw, mask2)]

\* mutant: clears one bit of the square instead of two
Board_set_one_bit(b, pos, s) ==
    LET bit_pos == Board_bits_at(pos)
        mask1 == BitXor(Shl(U128(1), bit_pos), U128_MAX)
        cleared == BitAnd(b.raw, mask1)
        mask2 == Shl(U128(Square_encode(s)), bit_pos)
    IN  [b EXCEPT !.raw = BitOr(cleared, mask2)]

Board_set(b, pos, s) ==
    LET bit_pos == Board_bits_at(pos)
        mask1 == BitXor(Shl(U128(3), bit_pos), U128_MAX)
        cleared == BitAnd(b.raw, mask1)
        mask2 == Shl(U128(Square_encode(s)), bit_pos)
    IN  [b EXCEPT !.raw = BitOr(cleared, mask2)]

\* mutant: does not carry the en-passant target over
Board_flip_drop_target(b) ==
    [raw |-> reverse_bits(b.raw), passantable_pos |-> None]

Board_flip(b) ==
    [raw |-> reverse_bits(b.raw),
     passantable_pos |->
        IF IsSome(b.passantable_pos)
        THEN Some(Position_flip(Unwrap(b.passantable_pos)))
        ELSE None]

\* mutant: an en-passant capture empties the destination
Board_after_clear_dest(self, m) ==
    LET b1 == Board_set(self, m.piece.pos, "Empty")
        b2 == Board_set(b1, m.to, "White")
        b3 == IF m.passant THEN Board_set(b2, m.to, "Empty") ELSE b2
    IN  IF Rank_n(m.to.rank) - Rank_n(m.piece.pos.rank) = 2
        THEN [b3 EXCEPT !.passantable_pos = Some(m.to)]
        ELSE b3

\* mutant: a double step registers the source square
Board_after_register_source(self, m) ==
    LET b1 == Board_set(self, m.piece.pos, "Empty")
        b2 == Board_set(b1, m.to, "White")
        b3 == IF m.passant
              THEN Board_set(b2, Unwrap(m.piece.board.passantable_pos), "Empty")
              ELSE b2
    IN  IF Rank_n(m.to.rank) - Rank_n(m.piece.pos.rank) = 2
        THEN [b3 EXCEPT !.passantable_pos = Some(m.piece.pos)]
        ELSE b3

\* m is a Move: [to, passant, piece |-> [pos, board]]
Board_after(self, m) ==
    LET b1 == Board_set(self, m.piece.pos, "Empty")
        b2 == Board_set(b1, m.to, "White")
        b3 == IF m.passant
              THEN Board_set(b2, Unwrap(m.piece.board.passantable_pos), "Empty")
              ELSE b2
    IN  IF Rank_n(m.to.rank) - Rank_n(m.piece.pos.rank) = 2
        THEN [b3 EXCEPT !.passantable_pos = Some(m.to)]
        ELSE b3

-----------------------------------------------------------------------------
(* PieceIterator: [board, look, done] *)

\* mutant: starts on the first square instead of before it
PieceIterator_new_at_a1(b) ==
    [board |-> b, look |-> Position_from(1, 1), done |-> FALSE]

PieceIterator_new(b) ==
    [board |-> b, look |-> Position_from(8, 8), done |-> FALSE]

\* the while loop of PieceIterator::next; the result is the iterator after the
\* call and the item returned
RECURSIVE PieceIterator_loop(_)
PieceIterator_loop(pit) ==
    IF pit.done THEN [it |-> pit, item |-> None]
    ELSE LET look == Position_incr(pit.look)
             pit1 == [pit EXCEPT !.look = look,
                                 !.done = Position_is_end(look)]
         IN  IF Square_is_white(Board_at(pit.board, look))
             THEN [it |-> pit1,
                   item |-> Some([pos |-> look, board |-> pit.board])]
             ELSE PieceIterator_loop(pit1)

\* the squares one call of PieceIterator::next looks at, in order
RECURSIVE PieceIterator_looked(_)
PieceIterator_looked(pit) ==
    IF pit.done THEN <<>>
    ELSE LET look == Position_incr(pit.look)
             pit1 == [pit EXCEPT !.look = look,
                                 !.done = Position_is_end(look)]
         IN  IF Square_is_white(Board_at(pit.board, look))
             THEN <<look>>
             ELSE <<look>> \o PieceIterator_looked(pit1)

PieceIterator_next(pit) ==
    IF pit.done THEN [it |-> pit, item |-> None]
    ELSE PieceIterator_loop(pit)

Board_pieces(b) == PieceIterator_new(b)

-----------------------------------------------------------------------------
(* MovesIterator: [piece, fwd_1, fwd_2, diag, passant] *)

\* mutant: takes rank 1 for the starting rank
MovesIterator_new_rank_1(piece) ==
    LET passant_check == piece.board.passantable_pos = None
    IN  [piece |-> piece,
         fwd_1 |-> FALSE,
         fwd_2 |-> Rank_n(piece.pos.rank) # 1,
         diag |-> <<FALSE, FALSE>>,
         passant |-> <<passant_check, passant_check>>]

MovesIterator_new(piece) ==
    LET passant_check == piece.board.passantable_pos = None
    IN  [piece |-> piece,
         fwd_1 |-> FALSE,
         fwd_2 |-> Rank_n(piece.pos.rank) # 2,
         diag |-> <<FALSE, FALSE>>,
         passant |-> <<passant_check, passant_check>>]

Piece_moves(piece) == MovesIterator_new(piece)

\* Option::filter with the predicates used by MovesIterator::next
FilterEmpty(o, b) ==
    IF IsSome(o) /\ Square_is_empty(Board_at(b, Unwrap(o))) THEN o ELSE None
FilterBlack(o, b) ==
    IF IsSome(o) /\ Square_is_black(Board_at(b, Unwrap(o))) THEN o ELSE None

\* mutant: the stage that yields a move carries on with the board after it
MkMove_applied(it, pos, passant) ==
    LET m == [to |-> pos, passant |-> passant, piece |-> it.piece]
    IN  [it |-> [it EXCEPT !.piece.board = Board_after(it.piece.board, m)],
         item |-> Some(m)]

MkMove(it, pos, passant) ==
    [it |-> it,
     item |-> Some([to |-> pos, passant |-> passant, piece |-> it.piece])]

\* the six blocks of MovesIterator::next, last first
Next_passant_r(it) ==
    IF ~it.passant[2]
    THEN LET it1 == [it EXCEPT !.passant[2] = TRUE]
             pos == FilterEmpty(Position_diag_r(it.piece.pos), it.piece.board)
         IN  IF Position_right(it.piece.pos) = it.piece.board.passantable_pos
                /\ IsSome(pos)
             THEN MkMove(it1, Unwrap(pos), TRUE)
             ELSE [it |-> it1, item |-> None]
    ELSE [it |-> it, item |-> None]

\* mutant: does not mark the en-passant-left stage as checked
Next_passant_l_unmarked(it) ==
    IF ~it.passant[1]
    THEN LET pos == FilterEmpty(Position_diag_l(it.piece.pos), it.piece.board)
         IN  IF Position_left(it.piece.pos) = it.piece.board.passantable_pos
                /\ IsSome(pos)
             THEN MkMove(it, Unwrap(pos), TRUE)
             ELSE Next_passant_r([it EXCEPT !.passant[1] = TRUE])
    ELSE Next_passant_r(it)

Next_passant_l(it) ==
    IF ~it.passant[1]
    THEN LET it1 == [it EXCEPT !.passant[1] = TRUE]
             pos == FilterEmpty(Position_diag_l(it.piece.pos), it.piece.board)
         IN  IF Position_left(it.piece.pos) = it.piece.board.passantable_pos
                /\ IsSome(pos)
             THEN MkMove(it1, Unwrap(pos), TRUE)
             ELSE Next_passant_r(it1)
    ELSE Next_passant_r(it)

Next_diag_r(it) ==
    IF ~it.diag[2]
    THEN LET it1 == [it EXCEPT !.diag[2] = TRUE]
             pos == FilterBlack(Position_diag_r(it.piece.pos), it.piece.board)
         IN  IF IsSome(pos) THEN MkMove(it1, Unwrap(pos), FALSE)
             ELSE Next_passant_l(it1)
    ELSE Next_passant_l(it)

Next_diag_l(it) ==
    IF ~it.diag[1]
    THEN LET it1 == [it EXCEPT !.diag[1] = TRUE]
             pos == FilterBlack(Position_diag_l(it.piece.pos), it.piece.board)
         IN  IF IsSome(pos) THEN MkMove(it1, Unwrap(pos), FALSE)
             ELSE Next_diag_r(it1)
    ELSE Next_diag_r(it)

\* mutant: the second stage steps to the right instead of two ranks forward
Next_fwd_2_sideways(it) ==
    IF ~it.fwd_2
    THEN LET it1 == [it EXCEPT !.fwd_2 = TRUE]
             pos == FilterEmpty(Position_right(it.piece.pos), it.piece.board)
         IN  IF IsSome(pos) THEN MkMove(it1, Unwrap(pos), FALSE)
             ELSE Next_diag_l(it1)
    ELSE Next_diag_l(it)

Next_fwd_2(it) ==
    IF ~it.fwd_2
    THEN LET it1 == [it EXCEPT !.fwd_2 = TRUE]
             pos == FilterEmpty(AndThenFront(Position_front(it.piece.pos)),
                                it.piece.board)
         IN  IF IsSome(pos) THEN MkMove(it1, Unwrap(pos), FALSE)
             ELSE Next_diag_l(it1)
    ELSE Next_diag_l(it)

\* mutant: a blocked single step does not disable the double step
Next_fwd_1_keep_fwd_2(it) ==
    IF ~it.fwd_1
    THEN LET it1 == [it EXCEPT !.fwd_1 = TRUE]
             pos == FilterEmpty(Position_front(it.piece.pos), it.piece.board)
         IN  IF IsSome(pos) THEN MkMove(it1, Unwrap(pos), FALSE)
             ELSE Next_fwd_2(it1)
    ELSE Next_fwd_2(it)

Next_fwd_1(it) ==
    IF ~it.fwd_1
    THEN LET it1 == [it EXCEPT !.fwd_1 = TRUE]
             pos == FilterEmpty(Position_front(it.piece.pos), it.piece.board)
         IN  IF IsSome(pos) THEN MkMove(it1, Unwrap(pos), FALSE)
             ELSE Next_fwd_2([it1 EXCEPT !.fwd_2 = TRUE])
    ELSE Next_fwd_2(it)

MovesIterator_next(it) == Next_fwd_1(it)

\* the items an iterator yields until its first None
RECURSIVE MovesDrain(_)
MovesDrain(it) ==
    LET r == MovesIterator_next(it)
    IN  IF r.item = None THEN <<>>
        ELSE <<Unwrap(r.item)>> \o MovesDrain(r.it)

\* self.pieces().flat_map(|p| p.moves())
RECURSIVE FlatMapMoves(_)
FlatMapMoves(pit) ==
    LET r == PieceIterator_next(pit)
    IN  IF r.item = None THEN <<>>
        ELSE MovesDrain(Piece_moves(Unwrap(r.item))) \o FlatMapMoves(r.it)

Board_moves(b) == FlatMapMoves(Board_pieces(b))

Range(s) == {s[i] : i \in 1..Len(s)}

-----------------------------------------------------------------------------
(* The game: the agent picks a generated move, applies it and flips *)

NoMove == <<>>
NoIter == <<>>
NoCall == <<>>

Init ==
    /\ board = Board_new
    /\ move = NoMove
    /\ phase = "move"
    /\ ply = 0
    /\ iter = NoIter
    /\ pulls = <<>>
    /\ pieces = NoIter
    /\ ppulls = <<>>
    /\ call = NoCall

\* the file of m's piece in White's coordinates
AbsFile(m) == IF ply % 2 = 0 THEN m.piece.pos.file ELSE 7 - m.piece.pos.file

Apply(m) ==
    /\ board' = Board_after(board, m)
    /\ move' = Some(m)
    /\ phase' = "flip"
    /\ ply' = ply + 1
    /\ UNCHANGED <<iter, pulls, pieces, ppulls, call>>

Play ==
    /\ phase = "move"
    /\ ply < MaxPly
    /\ \E m \in Range(Board_moves(board)) :
          /\ AbsFile(m) \in PlayFiles
          /\ Apply(m)

Flip ==
    /\ phase = "flip"
    /\ board' = Board_flip(board)
    /\ phase' = "move"
    /\ UNCHANGED <<move, ply, iter, pulls, pieces, ppulls, call>>

Next == Play \/ Flip

Spec == Init /\ [][Next]_vars

-----------------------------------------------------------------------------
(* Arbitrary small boards: built square by square with Board::set, as       *)
(* board.rs:test builds its board, then played on                           *)

\* the number of squares of b that hold s
PawnCount(b, s) == Cardinality({q \in Squares : Board_at(b, q) = s})

AnySquares == {Pos(f, r) : f \in AnyFiles, r \in AnyRanks}

EmptyBoard == [raw |-> U128_ZERO, passantable_pos |-> None]

\* the board with the pawns of the placement c (a function from squares to
\* colours) written by Board::set
RECURSIVE Place(_, _)
Place(b, c) ==
    IF DOMAIN c = {} THEN b
    ELSE LET p == CHOOSE q \in DOMAIN c : TRUE
         IN  Place(Board_set(b, p, c[p]), [q \in DOMAIN c \ {p} |-> c[q]])

Placements ==
    UNION {[S -> {"White", "Black"}] :
              S \in {T \in SUBSET AnySquares : Cardinality(T) <= MaxPawns}}

\* passantable_pos of a board handed to the mover: none, or a square of the
\* rank on which an opponent's double step lands (after() never clears it, so
\* the square may hold anything by now)
AnyTargets ==
    {None} \cup {Some(p) : p \in {q \in AnySquares : q.rank = 4}}

AnyBoards ==
    {[Place(EmptyBoard, c) EXCEPT !.passantable_pos = t] :
        c \in Placements, t \in AnyTargets}

InitAny ==
    /\ board \in AnyBoards
    /\ move = NoMove
    /\ phase = "move"
    /\ ply = 0
    /\ iter = NoIter
    /\ pulls = <<>>
    /\ pieces = NoIter
    /\ ppulls = <<>>
    /\ call = NoCall

PlayAny ==
    /\ phase = "move"
    /\ ply < MaxAnyPly
    /\ \E m \in Range(Board_moves(board)) : Apply(m)

NextAny == PlayAny \/ Flip

SpecAny == InitAny /\ [][NextAny]_vars

-----------------------------------------------------------------------------
(* One MovesIterator pulled step by step *)

RECURSIVE PiecesDrain(_)
PiecesDrain(pit) ==
    LET r == PieceIterator_next(pit)
    IN  IF r.item = None THEN <<>>
        ELSE <<Unwrap(r.item)>> \o PiecesDrain(r.it)

\* let it = piece.moves()
MovesNew ==
    /\ iter = NoIter
    /\ \E piece \in Range(PiecesDrain(Board_pieces(board))) :
          iter' = Some(Piece_moves(piece))
    /\ pulls' = <<>>
    /\ UNCHANGED <<board, move, phase, ply, pieces, ppulls, call>>

\* it.next()
MovesNext ==
    /\ iter # NoIter
    /\ Len(pulls) < MaxPulls
    /\ LET r == MovesIterator_next(Unwrap(iter))
       IN  /\ iter' = Some(r.it)
           /\ pulls' = Append(pulls, r.item)
    /\ UNCHANGED <<board, move, phase, ply, pieces, ppulls, call>>

NextEnum == MovesNew \/ MovesNext

-----------------------------------------------------------------------------
(* One PieceIterator pulled step by step *)

\* let it = board.pieces()
PiecesNew ==
    /\ pieces = NoIter
    /\ pieces' = Some(Board_pieces(board))
    /\ ppulls' = <<>>
    /\ UNCHANGED <<board, move, phase, ply, iter, pulls, call>>

\* it.next()
PiecesNext ==
    /\ pieces # NoIter
    /\ Len(ppulls) < MaxPulls
    /\ LET r == PieceIterator_next(Unwrap(pieces))
       IN  /\ pieces' = Some(r.it)
           /\ ppulls' = Append(ppulls,
                  [item |-> r.item,
                   looked |-> PieceIterator_looked(Unwrap(pieces))])
    /\ UNCHANGED <<board, move, phase, ply, iter, pulls, call>>

NextPieces == PiecesNew \/ PiecesNext

-----------------------------------------------------------------------------
(* Calls of the File, Rank and Position functions.  call.ret is Some(value)   *)
(* when the function returns value and None when it does not return (panic). *)

CoordInputs == (0 - MaxCoord)..(8 + MaxCoord)
\* '0'..'9', '@', 'A'..'J', 'Z', 'a'..'j', 'z'
CharInputs == (48..57) \cup (64..74) \cup {90} \cup (97..106) \cup {122}

Called(op, arg, ret) == Some([op |-> op, arg |-> arg, ret |-> ret])

FileNew ==
    /\ \E v \in CoordInputs : call' = Called("File::new", v, Some(File_new(v)))
    /\ UNCHANGED <<board, move, phase, ply, iter, pulls, pieces, ppulls>>

RankNew ==
    /\ \E v \in CoordInputs : call' = Called("Rank::new", v, Some(Rank_new(v)))
    /\ UNCHANGED <<board, move, phase, ply, iter, pulls, pieces, ppulls>>

FileParse ==
    /\ \E c \in CharInputs : call' = Called("File::parse", c, Some(File_parse(c)))
    /\ UNCHANGED <<board, move, phase, ply, iter, pulls, pieces, ppulls>>

\* Self::new(v.to_digit(10).unwrap() as i32)
RankParse ==
    /\ \E c \in CharInputs :
          call' = Called("Rank::parse", c,
                         IF IsSome(to_digit(c))
                         THEN Some(Rank_new(Unwrap(to_digit(c))))
                         ELSE None)
    /\ UNCHANGED <<board, move, phase, ply, iter, pulls, pieces, ppulls>>

FileIncr ==
    /\ \E f \in 0..7 : call' = Called("File::incr", f, Some(File_incr(f)))
    /\ UNCHANGED <<board, move, phase, ply, iter, pulls, pieces, ppulls>>

FileDecr ==
    /\ \E f \in 0..7 : call' = Called("File::decr", f, Some(File_decr(f)))
    /\ UNCHANGED <<board, move, phase, ply, iter, pulls, pieces, ppulls>>

RankIncr ==
    /\ \E r \in 0..7 : call' = Called("Rank::incr", r, Some(Rank_incr(r)))
    /\ UNCHANGED <<board, move, phase, ply, iter, pulls, pieces, ppulls>>

RankDecr ==
    /\ \E r \in 0..7 : call' = Called("Rank::decr", r, Some(Rank_decr(r)))
    /\ UNCHANGED <<board, move, phase, ply, iter, pulls, pieces, ppulls>>

PositionIncr ==
    /\ \E p \in Squares :
          call' = Called("Position::incr", p, Some(Position_incr(p)))
    /\ UNCHANGED <<board, move, phase, ply, iter, pulls, pieces, ppulls>>

NextCoord ==
    \/ FileNew \/ RankNew \/ FileParse \/ RankParse
    \/ FileIncr \/ FileDecr \/ RankIncr \/ RankDecr \/ PositionIncr

SpecCoord == Init /\ [][NextCoord]_vars

-----------------------------------------------------------------------------
(* Several enumerations of one board b, interleaved with b.flip() and        *)
(* b.after(m).  flip and after take &self and pieces takes a copy, so no     *)
(* action assigns board.                                                     *)

\* boards with one mover pawn on which an en-passant capture of an opponent
\* pawn is generated
ShareBoards ==
    {b \in AnyBoards :
        /\ PawnCount(b, "White") = 1
        /\ IsSome(b.passantable_pos)
        /\ Board_at(b, Unwrap(b.passantable_pos)) = "Black"
        /\ \E i \in 1..Len(Board_moves(b)) : Board_moves(b)[i].passant}

InitShare ==
    /\ board \in ShareBoards
    /\ move = NoMove
    /\ phase = "move"
    /\ ply = 0
    /\ iter = NoIter
    /\ pulls = <<>>
    /\ pieces = NoIter
    /\ ppulls = <<>>
    /\ call = NoCall

\* let f = b.flip()
CallFlip ==
    /\ call' = Called("Board::flip", board, Some(Board_flip(board)))
    /\ UNCHANGED <<board, move, phase, ply, iter, pulls, pieces, ppulls>>

\* let a = b.after(&m), m one of b.moves()
CallAfter ==
    /\ \E m \in Range(Board_moves(board)) :
          call' = Called("Board::after", m, Some(Board_after(board, m)))
    /\ UNCHANGED <<board, move, phase, ply, iter, pulls, pieces, ppulls>>

NextShare ==
    \/ MovesNew \/ MovesNext \/ PiecesNew \/ PiecesNext
    \/ CallFlip \/ CallAfter

SpecShare == InitShare /\ [][NextShare]_vars

-----------------------------------------------------------------------------
(* Games played to their end: every generated move may be picked and there  *)
(* is no limit on the number of plies.  The boards are endgames with one    *)
(* pawn a side, the opponent's pawn on the mirrored ranks.                   *)

EndBoards ==
    {Place(EmptyBoard, [q \in {w, k} |-> IF q = w THEN "White" ELSE "Black"]) :
        <<w, k>> \in {x \in AnySquares \X
                              {Pos(q.file, Rank_flip(q.rank)) : q \in AnySquares} :
                         x[1] # x[2]}}

InitEnd ==
    /\ board \in EndBoards
    /\ move = NoMove
    /\ phase = "move"
    /\ ply = 0
    /\ iter = NoIter
    /\ pulls = <<>>
    /\ pieces = NoIter
    /\ ppulls = <<>>
    /\ call = NoCall

\* pick any of b.moves() and apply it
PlayEnd ==
    /\ phase = "move"
    /\ \E m \in Range(Board_moves(board)) : Apply(m)

NextEnd == PlayEnd \/ Flip

\* the side to move has no move
GameOver == phase = "move" /\ Len(Board_moves(board)) = 0

\* the game goes on for as long as the side to move has a move: weak fairness
\* of NextEnd, WF_vars(NextEnd), written out with ~GameOver for
\* ENABLED <<NextEnd>>_vars (Flip is enabled in phase "flip", PlayEnd in phase
\* "move" exactly when b.moves() yields a move, and both change vars)
FairEnd == []<>GameOver \/ []<><<NextEnd>>_vars

SpecEnd == InitEnd /\ [][NextEnd]_vars /\ FairEnd

\* boards with pawns on the two edge files, on the last two ranks, and in the
\* four corners, built with Board::set like the boards of AnyBoards
EdgeSquares == {Pos(f, r) : f \in {0, 7}, r \in AnyRanks}
LastRankSquares == {Pos(f, r) : f \in AnyFiles, r \in {6, 7}}
CornerSquares == {Pos(f, r) : f \in {0, 7}, r \in {0, 7}}

PlacementsOn(squares) ==
    UNION {[S -> {"White", "Black"}] :
              S \in {T \in SUBSET squares : Cardinality(T) <= MaxPawns}}

BoardsOn(squares, targets) ==
    {[Place(EmptyBoard, c) EXCEPT !.passantable_pos = t] :
        c \in PlacementsOn(squares), t \in targets}

EnumBoards ==
    AnyBoards
    \cup BoardsOn(EdgeSquares,
                  {None} \cup {Some(p) : p \in {q \in EdgeSquares : q.rank = 4}})
    \cup BoardsOn(LastRankSquares, AnyTargets)
    \cup BoardsOn(CornerSquares, AnyTargets)

InitEnum ==
    /\ board \in EnumBoards
    /\ move = NoMove
    /\ phase = "move"
    /\ ply = 0
    /\ iter = NoIter
    /\ pulls = <<>>
    /\ pieces = NoIter
    /\ ppulls = <<>>
    /\ call = NoCall

SpecPieces == InitEnum /\ [][NextPieces]_vars

SpecEnum == InitEnum /\ [][NextEnum]_vars

-----------------------------------------------------------------------------
(* Properties *)

\* the move applied last and the board it was generated from and applied to
LastMove == Unwrap(move)
LastBoard == LastMove.piece.board
\* destination rank minus source rank
Delta(m) == m.to.rank - m.piece.pos.rank
Target(b) == b.passantable_pos
\* the moves of the pawn at p on board b, in the order they are yielded
MovesOf(b, p) == MovesDrain(Piece_moves([pos |-> p, board |-> b]))
Adjacent(p, x) == p.rank = x.rank /\ (p.file = x.file + 1 \/ p.file + 1 = x.file)

\* C1: after a generated move whose rank delta is not 2 has been applied, the
\* resulting board has no en-passant target, whatever target the board had.
C1_TargetClearedUnlessDoubleStep ==
    (phase = "flip" /\ Delta(LastMove) # 2) => Target(board) = None

\* C2: in a game, whenever the board handed to the mover has an en-passant
\* target, that square holds an opponent pawn and the preceding ply was a double
\* step onto it.
C2_TargetIsFreshDoubleStep ==
    (phase = "move" /\ IsSome(Target(board))) =>
        /\ Board_at(board, Unwrap(Target(board))) = "Black"
        /\ move # NoMove
        /\ Delta(LastMove) = 2
        /\ Position_flip(LastMove.to) = Unwrap(Target(board))

\* C3: when an opponent pawn has just double-stepped to X, X is the en-passant
\* target and a mover pawn stands at p next to X, then the moves of p contain
\* exactly one en-passant move, it goes to the square in front of X, and
\* applying it empties X and p and puts a mover pawn on the destination.
C3_EnPassantRoundTrip ==
    (phase = "move" /\ move # NoMove /\ Delta(LastMove) = 2
        /\ Target(board) = Some(Pos(7 - LastMove.to.file, 7 - LastMove.to.rank))) =>
        LET X == Unwrap(Target(board))
            dest == Pos(X.file, X.rank + 1)
        IN  \A p \in Squares :
                (Board_at(board, p) = "White" /\ Adjacent(p, X)) =>
                    LET ms == MovesOf(board, p)
                        eps == {i \in 1..Len(ms) : ms[i].passant}
                    IN  /\ Cardinality(eps) = 1
                        /\ \A i \in eps :
                              /\ ms[i].to = dest
                              /\ LET b2 == Board_after(board, ms[i])
                                 IN  /\ Board_at(b2, X) = "Empty"
                                     /\ Board_at(b2, p) = "Empty"
                                     /\ Board_at(b2, dest) = "White"

C3_Witness ==
    /\ phase = "move" /\ move # NoMove /\ Delta(LastMove) = 2
    /\ Target(board) = Some(Position_flip(LastMove.to))
    /\ Board_at(board, Unwrap(Target(board))) = "Black"
    /\ \E p \in Squares :
          /\ Board_at(board, p) = "White"
          /\ Adjacent(p, Unwrap(Target(board)))
          /\ \E i \in 1..Len(MovesOf(board, p)) : MovesOf(board, p)[i].passant

\* one write of s at pos on b0 gives a board that decodes to s at pos and to
\* the same value as b0 everywhere else
WriteIsolated(b0, pos, s) ==
    LET b1 == Board_set(b0, pos, s)
    IN  /\ Board_at(b1, pos) = s
        /\ \A q \in Squares \ {pos} : Board_at(b1, q) = Board_at(b0, q)

\* C4: after a generated move m has been applied to b, the source square is
\* Empty, the destination holds a mover pawn and every other square is as in b,
\* except b's en-passant target when m is an en-passant move; each write of a
\* square changes that square only.
C4_AfterFrame ==
    phase = "flip" =>
        LET m == LastMove
            b == LastBoard
        IN  /\ Board_at(board, m.piece.pos) = "Empty"
            /\ Board_at(board, m.to) = "White"
            /\ \A q \in Squares \ {m.piece.pos, m.to} :
                  \/ m.passant /\ Some(q) = Target(b)
                  \/ Board_at(board, q) = Board_at(b, q)
            /\ \A pos \in {m.piece.pos, m.to} \cup Range(Target(b)) :
                  \A s \in {"White", "Black", "Empty"} :
                      WriteIsolated(b, pos, s) /\ WriteIsolated(board, pos, s)

C4_Witness ==
    /\ phase = "flip"
    /\ LastMove.passant
    /\ Board_at(LastBoard, Unwrap(Target(LastBoard))) = "Black"
    /\ Board_at(board, Unwrap(Target(LastBoard))) = "Empty"
    /\ PawnCount(board, "Black") >= 1

\* C5: after a generated move whose rank delta is 2 has been applied, the
\* en-passant target of the resulting board is the move's destination.
C5_DoubleStepRegistersTarget ==
    (phase = "flip" /\ Delta(LastMove) = 2) =>
        Target(board) = Some(LastMove.to)

C5_Witness ==
    /\ phase = "flip" /\ Delta(LastMove) = 2
    /\ IsSome(Target(LastBoard))
    /\ Target(LastBoard) # Some(LastMove.to)

\* C6: flipping a board twice gives the board back: every square decodes to
\* the same value and the en-passant target is the same.
C6_FlipInvolution ==
    LET bb == Board_flip(Board_flip(board))
    IN  /\ \A p \in Squares : Board_at(bb, p) = Board_at(board, p)
        /\ Target(bb) = Target(board)

C6_Witness ==
    /\ phase = "move" /\ move # NoMove
    /\ IsSome(Target(board))
    /\ Board_flip(board) # board

\* C7: the flipped board holds at (7-file, 7-rank) what the board holds at
\* (file, rank) with the colours swapped, and its en-passant target is the
\* board's target mapped to (7-file, 7-rank).
C7_FlipIsRotation ==
    LET fb == Board_flip(board)
    IN  /\ \A p \in Squares :
              Board_at(fb, Pos(7 - p.file, 7 - p.rank))
                  = Square_flip(Board_at(board, p))
        /\ Target(fb) =
              IF IsSome(Target(board))
              THEN Some(Pos(7 - Unwrap(Target(board)).file,
                            7 - Unwrap(Target(board)).rank))
              ELSE None

C7_Witness ==
    /\ phase = "move" /\ move # NoMove
    /\ IsSome(Target(board))
    /\ Target(Board_flip(board)) # Target(board)
    /\ PawnCount(board, "White") >= 1
    /\ PawnCount(board, "Black") >= 1

\* the stage of MovesIterator::next that yields a move of this shape: 1 single
\* forward, 2 double forward, 3 diagonal left, 4 diagonal right, 5 en passant
\* left, 6 en passant right; 0 for a move of no stage
StageOf(m) ==
    LET p == m.piece.pos
        dr == m.to.rank - p.rank
        df == m.to.file - p.file
    IN  IF ~m.passant /\ df = 0 /\ dr = 1 THEN 1
        ELSE IF ~m.passant /\ df = 0 /\ dr = 2 THEN 2
        ELSE IF ~m.passant /\ df = -1 /\ dr = 1 THEN 3
        ELSE IF ~m.passant /\ df = 1 /\ dr = 1 THEN 4
        ELSE IF m.passant /\ df = -1 /\ dr = 1 THEN 5
        ELSE IF m.passant /\ df = 1 /\ dr = 1 THEN 6
        ELSE 0

Yielded == {i \in 1..Len(pulls) : IsSome(pulls[i])}

\* C8: the pulls of one move iterator yield moves in the order single forward,
\* double forward, diagonal left, diagonal right, en passant left, en passant
\* right, no stage twice; at most 6 moves are yielded, the iterator is
\* exhausted by the 7th pull, and every pull after an exhausted one is
\* exhausted too.
C8_StageOrder ==
    /\ \A i \in Yielded : StageOf(Unwrap(pulls[i])) \in 1..6
    /\ \A i, j \in Yielded :
          i < j => StageOf(Unwrap(pulls[i])) < StageOf(Unwrap(pulls[j]))
    /\ Cardinality(Yielded) <= 6
    /\ Len(pulls) >= 7 => \E i \in 1..7 : pulls[i] = None
    /\ \A i, j \in 1..Len(pulls) : (i < j /\ pulls[i] = None) => pulls[j] = None

C8_Witness ==
    /\ Len(pulls) = MaxPulls
    /\ Cardinality(Yielded) >= 2
    /\ \E i \in Yielded : Unwrap(pulls[i]).passant
    /\ pulls[MaxPulls] = None

\* C9: once the iterator of the pawn at p is exhausted, it has yielded a
\* double-forward move exactly when p is on rank 2 and the square ahead and the
\* square two ahead are both Empty.
C9_DoubleForwardIff ==
    (iter # NoIter /\ Len(pulls) >= 1 /\ pulls[Len(pulls)] = None) =>
        LET p == Unwrap(iter).piece.pos
            b == Unwrap(iter).piece.board
        IN  (\E i \in Yielded :
                /\ ~Unwrap(pulls[i]).passant
                /\ Unwrap(pulls[i]).to = Pos(p.file, p.rank + 2))
            <=> /\ p.rank = 1
                /\ Board_at(b, Pos(p.file, 2)) = "Empty"
                /\ Board_at(b, Pos(p.file, 3)) = "Empty"

C9_Witness ==
    /\ iter # NoIter /\ Len(pulls) >= 1 /\ pulls[Len(pulls)] = None
    /\ Unwrap(iter).piece.pos.rank = 1
    /\ Board_at(board, Pos(Unwrap(iter).piece.pos.file, 2)) # "Empty"
    /\ Board_at(board, Pos(Unwrap(iter).piece.pos.file, 3)) = "Empty"
    /\ \A i \in Yielded : StageOf(Unwrap(pulls[i])) # 2

\* C10: on the initial board moves() yields 16 moves: for each of the 8 pawns
\* on rank 2 its single-forward and its double-forward move, and no capture
\* and no en-passant move.
C10_InitialMoves ==
    (ply = 0 /\ phase = "move") =>
        LET ms == Board_moves(board)
        IN  /\ Len(ms) = 16
            /\ \A f \in 0..7 :
                  {<<ms[i].to, ms[i].passant>> :
                      i \in {k \in 1..Len(ms) : ms[k].piece.pos = Pos(f, 1)}}
                  = {<<Pos(f, 2), FALSE>>, <<Pos(f, 3), FALSE>>}
            /\ \A i \in 1..Len(ms) :
                  /\ ms[i].piece.pos.rank = 1
                  /\ StageOf(ms[i]) \in {1, 2}

C10_Witness ==
    /\ ply = 0 /\ phase = "move"
    /\ board = Board_new
    /\ Target(board) = None
    /\ PawnCount(board, "White") = 8
    /\ PawnCount(board, "Black") = 8
    /\ Len(Board_moves(board)) = 16

Abs(n) == IF n < 0 THEN 0 - n ELSE n

\* C11: a pawn on file A yields no diagonal-left and no en-passant-left move,
\* a pawn on file H no diagonal-right and no en-passant-right move, and every
\* yielded move goes to a square of the board at most one file from its source.
C11_EdgeSafety ==
    \A i \in Yielded :
        LET m == Unwrap(pulls[i])
            p == m.piece.pos
        IN  /\ m.to \in Squares
            /\ Abs(m.to.file - p.file) <= 1
            /\ p.file = 0 => StageOf(m) \notin {3, 5}
            /\ p.file = 7 => StageOf(m) \notin {4, 6}

C11_Witness ==
    /\ iter # NoIter /\ Len(pulls) >= 2 /\ pulls[Len(pulls)] = None
    /\ Unwrap(iter).piece.pos.file = 7
    /\ Unwrap(iter).piece.pos.rank < 7
    /\ IsSome(Target(board))
    /\ Board_at(board, Pos(0, Unwrap(iter).piece.pos.rank + 1)) = "Black"
    /\ Yielded # {}

\* C12: a pawn on rank 8 yields no move at all, whatever the en-passant target.
C12_LastRankStall ==
    (iter # NoIter /\ Unwrap(iter).piece.pos.rank = 7) => Yielded = {}

C12_Witness ==
    /\ iter # NoIter /\ Unwrap(iter).piece.pos.rank = 7
    /\ Len(pulls) = MaxPulls
    /\ IsSome(Target(board))
    /\ PawnCount(board, "Black") >= 1

\* the k-th square in scan order: files A to H within a rank, ranks 1 to 8
ScanSquare(k) == Pos((k - 1) % 8, (k - 1) \div 8)
\* the squares of b that hold a mover pawn, in scan order
ScanWhites(b) ==
    SelectSeq([k \in 1..64 |-> ScanSquare(k)], LAMBDA q : Board_at(b, q) = "White")

RECURSIVE ConcatMovesOf(_, _)
ConcatMovesOf(b, ps) ==
    IF ps = <<>> THEN <<>>
    ELSE MovesOf(b, Head(ps)) \o ConcatMovesOf(b, Tail(ps))

\* all squares the piece iterator has looked at, in order
RECURSIVE LookedUpTo(_)
LookedUpTo(n) ==
    IF n = 0 THEN <<>> ELSE LookedUpTo(n - 1) \o ppulls[n].looked

PieceYields == {i \in 1..Len(ppulls) : IsSome(ppulls[i].item)}

\* C13: the piece iterator looks at the squares in scan order from A1, each at
\* most once and at most 64 in all, yields exactly the squares that hold a
\* mover pawn (A1 and H8 included), each once, in that order, and once
\* exhausted stays exhausted; moves() is the concatenation of the pieces' move
\* sequences in that order.
C13_PieceScan ==
    LET looked == LookedUpTo(Len(ppulls))
        whites == ScanWhites(board)
    IN  /\ Len(looked) <= 64
        /\ \A k \in 1..Len(looked) : looked[k] = ScanSquare(k)
        /\ \A i \in PieceYields :
              /\ Unwrap(ppulls[i].item).pos = whites[i]
              /\ Unwrap(ppulls[i].item).board = board
        /\ Cardinality(PieceYields) <= Len(whites)
        /\ \A i \in 1..Len(ppulls) :
              ppulls[i].item = None =>
                  /\ i > Len(whites)
                  /\ \A j \in (i + 1)..Len(ppulls) :
                        ppulls[j].item = None /\ ppulls[j].looked = <<>>
        /\ Board_moves(board) = ConcatMovesOf(board, whites)

C13_Witness ==
    /\ Len(ppulls) = MaxPulls
    /\ ppulls[MaxPulls].item = None
    /\ Board_at(board, Pos(0, 0)) = "White"
    /\ Board_at(board, Pos(7, 7)) = "White"
    /\ Cardinality(PieceYields) = 2
    /\ Len(LookedUpTo(MaxPulls)) = 64

\* C14: incrementing a File or Rank at index 7, decrementing one at index 0
\* and incrementing the Position H8 fail (return nothing); none of them wraps.
C14_EdgeDetected ==
    call # NoCall =>
        LET c == Unwrap(call)
        IN  /\ (c.op \in {"File::incr", "Rank::incr"} /\ c.arg = 7) => c.ret = None
            /\ (c.op \in {"File::decr", "Rank::decr"} /\ c.arg = 0) => c.ret = None
            /\ (c.op = "Position::incr" /\ c.arg = Pos(7, 7)) => c.ret = None

\* C15: File::new and Rank::new of an integer outside 1..8 and File::parse of a
\* character outside A..H (in either case) are rejected, and no construction
\* returns an index outside 0..7.
C15_ConstructionRejected ==
    call # NoCall =>
        LET c == Unwrap(call)
        IN  /\ (c.op \in {"File::new", "Rank::new"} /\ c.arg \notin 1..8)
                  => c.ret = None
            /\ (c.op = "File::parse" /\ c.arg \notin (65..72) \cup (97..104))
                  => c.ret = None
            /\ (c.op \in {"File::new", "Rank::new", "File::parse", "Rank::parse"}
                    /\ IsSome(c.ret))
                  => Unwrap(c.ret) \in 0..7

\* what the enumerations and calls in progress hold is b as it is now
Snapshot ==
    /\ iter # NoIter =>
          LET it == Unwrap(iter)
              ms == MovesOf(board, it.piece.pos)
          IN  /\ it.piece.board = board
              /\ \A i \in Yielded :
                    /\ Unwrap(pulls[i]).piece.board = board
                    /\ i <= Len(ms)
                    /\ Unwrap(pulls[i]) = ms[i]
    /\ pieces # NoIter =>
          /\ Unwrap(pieces).board = board
          /\ \A i \in PieceYields : Unwrap(ppulls[i].item).board = board
    /\ call # NoCall =>
          LET c == Unwrap(call)
          IN  /\ c.op = "Board::flip" =>
                    c.arg = board /\ c.ret = Some(Board_flip(board))
              /\ c.op = "Board::after" =>
                    /\ c.arg.piece.board = board
                    /\ c.ret = Some(Board_after(board, c.arg))
                    /\ Unwrap(c.ret) # board

\* C16: enumerating pieces() or moves() of b, fully or partially and
\* interleaved, and calling b.flip() or b.after(m), never changes b; every
\* stage of a move enumeration reads the same b, and the results of flip and
\* after are values other than b.
C16_BoardUnchanged == [][board' = board]_vars /\ []Snapshot

C16_Witness ==
    /\ iter # NoIter
    /\ \E i \in Yielded : Unwrap(pulls[i]).passant
    /\ PieceYields # {}
    /\ Len(ppulls) < MaxPulls
    /\ call # NoCall
    /\ Unwrap(call).op = "Board::after"
    /\ Unwrap(call).arg.passant

\* the two bits stored for the square q of b, as a number 0..3
StoredBits(b, q) ==
    b.raw[Board_bits_at(q)] + 2 * b.raw[Board_bits_at(q) + 1]

\* C17: on every board reached from the initial board by applying generated
\* moves and flipping, no square stores the bits 11, and writing any value s
\* on a square touched by the last move and reading the square gives s.
C17_OneEncoding ==
    /\ \A q \in Squares : StoredBits(board, q) \in {0, 1, 2}
    /\ phase = "flip" =>
          \A p \in {LastMove.piece.pos, LastMove.to} :
              \A s \in {"White", "Black", "Empty"} :
                  /\ Board_at(Board_set(board, p, s), p) = s
                  /\ Board_at(Board_set(LastBoard, p, s), p) = s

\* a pawn has just been written over an opponent pawn, and a flip happened
\* earlier in the game
C17_Witness ==
    /\ phase = "flip"
    /\ ply > 1
    /\ Board_at(LastBoard, LastMove.to) = "Black"
    /\ Board_at(board, LastMove.to) = "White"

\* a diagonal capture or an en-passant capture
IsCapture(m) == m.passant \/ m.to.file # m.piece.pos.file

\* C18: in a game from the initial board, applying a generated move leaves the
\* number of mover pawns unchanged and lowers the number of opponent pawns by
\* exactly 1 when the move is a diagonal or en-passant capture and by 0
\* otherwise.
C18_PawnConservation ==
    phase = "flip" =>
        /\ PawnCount(board, "White") = PawnCount(LastBoard, "White")
        /\ PawnCount(board, "Black") =
              PawnCount(LastBoard, "Black") - (IF IsCapture(LastMove) THEN 1 ELSE 0)

\* every move generated on the board advances its pawn by 1 or 2 ranks
MovesAdvance ==
    phase = "move" =>
        \A i \in 1..Len(Board_moves(board)) : Delta(Board_moves(board)[i]) \in {1, 2}

=============================================================================
